---- MODULE Spec2Model ----
(***************************************************************************)
(* GST Calculator API (src/main.py, src/schemas.py).                       *)
(*                                                                         *)
(* Strings are sequences of one-character strings.  Money is an integer    *)
(* number of thousandths (mills): 0.01 is 10 mills, so a value "rounded to *)
(* 2 decimal places" is a multiple of 10.  Rates are integer percentages.  *)
(* Optional values are sequences of length 0 (None) or 1.                  *)
(***************************************************************************)
EXTENDS Integers, Sequences, FiniteSets, TLC

VARIABLES
    store,       \* the "gstcategory" collection, in insertion order
    log,         \* the "gstcalculation" collection (audit log)
    req,         \* Optional payload of the last /api/calculate request
    faults,      \* which storage calls raised during the last request
    detected,    \* local `detected` of calculate_tax for the last request
    storeReads,  \* get_documents calls made by the last request
    resp,        \* the last HTTP response
    calc,        \* tax calculator exercised on its own
    det          \* category detector exercised on its own

vars == <<store, log, req, faults, detected, storeReads, resp, calc, det>>

\* ------------------------------------------------------------------ bounds

MaxCats == 2
MaxLog == 1
MaxAmount == 1000
MaxKeywords == 2
MaxSeqCats == 2

\* ------------------------------------------------------- program constants

DefaultRate == 18
MaxRate == 100
Cent == 10

None == <<>>
Some(v) == <<v>>

\* ----------------------------------------------------------------- strings

LowerTable ==
    ("A" :> "a") @@ ("B" :> "b") @@ ("Y" :> "y") @@
    ("E" :> "e") @@ ("X" :> "x") @@ ("C" :> "c") @@ ("L" :> "l") @@
    ("U" :> "u") @@ ("S" :> "s") @@ ("I" :> "i") @@ ("V" :> "v") @@
    ("N" :> "n") @@ ("F" :> "f") @@ ("O" :> "o")

LowerChar(c) == IF c \in DOMAIN LowerTable THEN LowerTable[c] ELSE c

\* str.lower()
Lower(s) == [i \in 1..Len(s) |-> LowerChar(s[i])]

\* `k in description` on strings
IsSubstring(k, d) ==
    \E i \in 0..(Len(d) - Len(k)) : SubSeq(d, i + 1, i + Len(k)) = k

exclusive == <<"e", "x", "c", "l", "u", "s", "i", "v", "e">>
inclusive == <<"i", "n", "c", "l", "u", "s", "i", "v", "e">>

\* ---------------------------------------------------------------- detector

\* kws = [k.lower() for k in cat.keywords] + [cat.name.lower()]
Kws(cat) ==
    [i \in 1..Len(cat.keywords) |-> Lower(cat.keywords[i])] \o <<Lower(cat.name)>>

\* score = sum(1 for k in kws if k and k in description)
Score(cat, description) ==
    LET kws == Kws(cat)
    IN  Cardinality({i \in 1..Len(kws) :
                        kws[i] # <<>> /\ IsSubstring(kws[i], description)})

\* a detector whose comparison is not strict
BetterOrEqual(score, best_score) == score >= best_score

\* if score > best_score
Better(score, best_score) == score > best_score

\* the for loop of detect_category from index i on; best is an Optional
RECURSIVE DetectLoop(_, _, _, _, _)
DetectLoop(categories, description, i, best, best_score) ==
    IF i > Len(categories) THEN best
    ELSE LET score == Score(categories[i], description)
         IN  IF Better(score, best_score)
             THEN DetectLoop(categories, description, i + 1,
                             Some(categories[i]), score)
             ELSE DetectLoop(categories, description, i + 1, best, best_score)

\* GSTCategory(name=..., rate=float(...), keywords=..., active=...)
GSTCategory(doc) ==
    [name |-> doc.name, rate |-> doc.rate,
     keywords |-> doc.keywords, active |-> doc.active]

\* detect_category after the category list was obtained
BestMatch(description, categories) ==
    LET best == DetectLoop(categories, Lower(description), 1, None, 0)
    IN  IF best # None THEN Some(GSTCategory(best[1])) ELSE None

\* get_documents("gstcategory", {}): the collection, or an exception
get_documents(raises) ==
    IF raises THEN [raised |-> TRUE, docs |-> <<>>]
    ELSE [raised |-> FALSE, docs |-> store]

\* the try/except around get_documents
ListedCategories(raises) ==
    LET got == get_documents(raises)
    IN  IF got.raised THEN <<>> ELSE got.docs

detect_category(description, raises) ==
    BestMatch(description, ListedCategories(raises))

\* -------------------------------------------------------------- calculator

\* round(num/den, 2) on a value of num/den mills.  A value exactly half way
\* between two cents goes either way: the binary float nearest to such a
\* decimal lies on either side of it (round(0.005, 2) = 0.01,
\* round(0.015, 2) = 0.01).
Round2(num, den) ==
    LET q == num \div (Cent * den)
        rem == num - q * Cent * den
    IN  IF 2 * rem < Cent * den THEN {Cent * q}
        ELSE IF 2 * rem > Cent * den THEN {Cent * (q + 1)}
        ELSE {Cent * q, Cent * (q + 1)}

\* an inclusive net computed as a discount, gross * (1 - r)
InclusiveNetDiscount(gross, applied_rate) ==
    Round2(gross * (100 - applied_rate), 100)

\* net = round(gross / (1 + r), 2) with r = applied_rate / 100.0
InclusiveNet(gross, applied_rate) == Round2(gross * 100, 100 + applied_rate)

\* a calculator that does not round the exclusive gross
ComputeUnroundedGross(amount, mode, applied_rate) ==
    IF mode = exclusive
    THEN {[net |-> amount, gst |-> gst, gross |-> amount + gst] :
             gst \in Round2(amount * applied_rate, 100)}
    ELSE UNION {{[net |-> net, gst |-> gst, gross |-> amount] :
                    gst \in Round2(amount - net, 1)} :
                net \in InclusiveNet(amount, applied_rate)}

\* a calculator whose inclusive tax is taken from the gross amount
ComputeTaxOnGross(amount, mode, applied_rate) ==
    IF mode = exclusive
    THEN UNION {{[net |-> amount, gst |-> gst, gross |-> gross] :
                    gross \in Round2(amount + gst, 1)} :
                gst \in Round2(amount * applied_rate, 100)}
    ELSE {[net |-> net, gst |-> gst, gross |-> amount] :
             net \in InclusiveNet(amount, applied_rate),
             gst \in Round2(amount * applied_rate, 100)}

\* the if/else on mode of calculate_tax: the set of (net, gst, gross)
Compute(amount, mode, applied_rate) ==
    IF mode = exclusive
    THEN UNION {{[net |-> amount, gst |-> gst, gross |-> gross] :
                    gross \in Round2(amount + gst, 1)} :
                gst \in Round2(amount * applied_rate, 100)}
    ELSE UNION {{[net |-> net, gst |-> gst, gross |-> amount] :
                    gst \in Round2(amount - net, 1)} :
                net \in InclusiveNet(amount, applied_rate)}

\* --------------------------------------------------------- rate resolution

\* payload.description or ""
OrEmpty(description) == IF description = None THEN <<>> ELSE description[1]

\* a resolution that tests the rate for truth (`if payload.rate:`)
ResolveRateTruthy(payload, listRaises) ==
    IF payload.rate # None /\ payload.rate[1] # 0
    THEN [applied_rate |-> payload.rate[1], source |-> "provided",
          detected |-> None, reads |-> 0]
    ELSE LET d == detect_category(OrEmpty(payload.description), listRaises)
         IN  IF d # None /\ d[1].active
             THEN [applied_rate |-> d[1].rate, source |-> "detected",
                   detected |-> d, reads |-> 1]
             ELSE [applied_rate |-> DefaultRate, source |-> "default",
                   detected |-> d, reads |-> 1]

\* a resolution that applies any match (`if detected:`)
ResolveRateAnyMatch(payload, listRaises) ==
    IF payload.rate # None
    THEN [applied_rate |-> payload.rate[1], source |-> "provided",
          detected |-> None, reads |-> 0]
    ELSE LET d == detect_category(OrEmpty(payload.description), listRaises)
         IN  IF d # None
             THEN [applied_rate |-> d[1].rate, source |-> "detected",
                   detected |-> d, reads |-> 1]
             ELSE [applied_rate |-> DefaultRate, source |-> "default",
                   detected |-> d, reads |-> 1]

\* lines 102-113 of calculate_tax: applied_rate, source, detected, and the
\* number of get_documents calls made on the way
ResolveRate(payload, listRaises) ==
    IF payload.rate # None
    THEN [applied_rate |-> payload.rate[1], source |-> "provided",
          detected |-> None, reads |-> 0]
    ELSE LET d == detect_category(OrEmpty(payload.description), listRaises)
         IN  IF d # None /\ d[1].active
             THEN [applied_rate |-> d[1].rate, source |-> "detected",
                   detected |-> d, reads |-> 1]
             ELSE [applied_rate |-> DefaultRate, source |-> "default",
                   detected |-> d, reads |-> 1]

\* a mode that is not lowercased
ModeOfRaw(payload) == payload.mode

\* mode = payload.mode.lower()
ModeOf(payload) == Lower(payload.mode)

\* detected.name if detected else None
NameOf(d) == IF d # None THEN Some(d[1].name) ELSE None

\* the field constraints of GSTCalculation
ValidCalculation(record) ==
    /\ record.amount >= 0
    /\ record.applied_rate >= 0 /\ record.applied_rate <= MaxRate
    /\ record.computed_tax >= 0
    /\ record.net_amount >= 0
    /\ record.gross_amount >= 0

\* GSTCalculation(...) built by calculate_tax
CalculationRecord(payload, mode, rr, amounts) ==
    [amount |-> payload.amount, mode |-> mode,
     applied_rate |-> rr.applied_rate, computed_tax |-> amounts.gst,
     net_amount |-> amounts.net, gross_amount |-> amounts.gross,
     detected_category |-> NameOf(rr.detected), source |-> rr.source]

\* CalculateResponse(...) returned by calculate_tax
CalculateResponse(rr, amounts) ==
    [net_amount |-> amounts.net, gst_amount |-> amounts.gst,
     gross_amount |-> amounts.gross, applied_rate |-> rr.applied_rate,
     detected_category |-> NameOf(rr.detected), source |-> rr.source]

\* a log write whose exception is not caught
TryLogPropagates(record, appendRaises) ==
    [raised |-> ~ValidCalculation(record) \/ appendRaises,
     log |-> IF ValidCalculation(record) /\ ~appendRaises
             THEN Append(log, record) ELSE log]

\* the try/except around GSTCalculation(...) and create_document: the log
\* afterwards, and whether an exception leaves the block
TryLog(record, appendRaises) ==
    [raised |-> FALSE,
     log |-> IF ValidCalculation(record) /\ ~appendRaises
             THEN Append(log, record) ELSE log]

NoFaults == [list |-> FALSE, append |-> FALSE]

\* ------------------------------------------------------------ input pools

Luxury ==
    [name |-> <<"L">>, rate |-> 28,
     keywords |-> << <<"y">>, <<"a">> >>, active |-> FALSE]
Electronics ==
    [name |-> <<"E">>, rate |-> 5, keywords |-> << <<"Y">> >>, active |-> TRUE]
CategoryPool == {Luxury, Electronics}

Descriptions == {None, Some(<<"Y", "a">>)}
RateInputs == {None, Some(0)}
Modes ==
    {exclusive,
     <<"I", "n", "C", "L", "U", "S", "I", "V", "E">>,
     <<"f", "o", "o">>}
\* 100.00 with every description, rate and mode, and 0.005 at rate 0 in
\* inclusive mode, where the tax can come out negative
HalfCent ==
    [amount |-> 5, description |-> None, rate |-> Some(0), mode |-> inclusive]
Payloads ==
    [amount : {100000}, description : Descriptions, rate : RateInputs, mode : Modes]
        \cup {HalfCent}

\* ---------------------------------------------------------------- handlers

IdleCalc ==
    [amount |-> 0, rate |-> 0, stage |-> "idle",
     first |-> [net |-> 0, gst |-> 0, gross |-> 0],
     second |-> [net |-> 0, gst |-> 0, gross |-> 0]]
IdleDet ==
    [description |-> <<>>, categories |-> <<>>, stage |-> "idle",
     result |-> None, scores |-> <<>>]

Init ==
    /\ store = <<>>
    /\ log = <<>>
    /\ req = None
    /\ faults = NoFaults
    /\ detected = None
    /\ storeReads = 0
    /\ resp = [status |-> 0, body |-> None]
    /\ calc = IdleCalc
    /\ det = IdleDet

\* POST /api/calculate
calculate_tax(payload, listRaises, appendRaises) ==
    LET mode == ModeOf(payload)
    IN  /\ req' = Some(payload)
        /\ UNCHANGED <<store, calc, det>>
        /\ IF mode \notin {exclusive, inclusive}
           THEN /\ resp' = [status |-> 400, body |-> None]
                /\ detected' = None
                /\ storeReads' = 0
                /\ faults' = NoFaults
                /\ UNCHANGED log
           ELSE LET rr == ResolveRate(payload, listRaises)
                IN  \E amounts \in Compute(payload.amount, mode, rr.applied_rate) :
                      LET record == CalculationRecord(payload, mode, rr, amounts)
                          tried == TryLog(record, appendRaises)
                      IN  /\ Len(tried.log) <= MaxLog
                          /\ log' = tried.log
                          /\ detected' = rr.detected
                          /\ storeReads' = rr.reads
                          /\ faults' =
                               [list |-> listRaises /\ rr.reads > 0,
                                append |-> appendRaises /\ ValidCalculation(record)]
                          /\ resp' =
                               IF tried.raised
                               THEN [status |-> 500, body |-> None]
                               ELSE [status |-> 200,
                                     body |-> Some(CalculateResponse(rr, amounts))]

\* POST /api/categories
add_category(cat, raises) ==
    /\ Len(store) < MaxCats
    /\ store' = IF raises THEN store ELSE Append(store, cat)
    /\ resp' = [status |-> IF raises THEN 500 ELSE 200, body |-> None]
    /\ req' = None
    /\ detected' = None
    /\ storeReads' = 0
    /\ faults' = NoFaults
    /\ UNCHANGED <<log, calc, det>>

Calculate ==
    \E payload \in Payloads, listRaises \in BOOLEAN, appendRaises \in BOOLEAN :
        calculate_tax(payload, listRaises, appendRaises)

AddCategory ==
    \E cat \in CategoryPool, raises \in BOOLEAN : add_category(cat, raises)

Next == Calculate \/ AddCategory

Spec == Init /\ [][Next]_vars

\* ------------------------------------------- the calculator on its own

HandlerIdle ==
    /\ store = <<>>
    /\ log = <<>>
    /\ req = None
    /\ faults = NoFaults
    /\ detected = None
    /\ storeReads = 0
    /\ resp = [status |-> 0, body |-> None]

InitCalc ==
    /\ HandlerIdle
    /\ det = IdleDet
    /\ \E amount \in 0..MaxAmount, rate \in 0..MaxRate :
          calc = [IdleCalc EXCEPT !.amount = amount, !.rate = rate,
                                  !.stage = "input"]

\* mode == "exclusive" on the input amount
ApplyExclusive ==
    /\ calc.stage = "input"
    /\ \E amounts \in Compute(calc.amount, exclusive, calc.rate) :
          calc' = [calc EXCEPT !.stage = "exclusive", !.first = amounts]
    /\ UNCHANGED <<store, log, req, faults, detected, storeReads, resp, det>>

\* mode == "inclusive" on the input amount
ApplyInclusive ==
    /\ calc.stage = "input"
    /\ \E amounts \in Compute(calc.amount, inclusive, calc.rate) :
          calc' = [calc EXCEPT !.stage = "inclusive", !.first = amounts]
    /\ UNCHANGED <<store, log, req, faults, detected, storeReads, resp, det>>

\* mode == "inclusive" on the gross amount of an exclusive calculation
ApplyRoundTrip ==
    /\ calc.stage = "exclusive"
    /\ \E amounts \in Compute(calc.first.gross, inclusive, calc.rate) :
          calc' = [calc EXCEPT !.stage = "roundtrip", !.second = amounts]
    /\ UNCHANGED <<store, log, req, faults, detected, storeReads, resp, det>>

NextCalc == ApplyExclusive \/ ApplyInclusive \/ ApplyRoundTrip

SpecCalc == InitCalc /\ [][NextCalc]_vars

\* --------------------------------------------- the detector on its own

DetKeywords == {<<>>, <<"a">>, <<"A">>}
DetNames == {<<"a">>, <<"B">>}
DetDescriptions == {<<>>, <<"A">>, <<"b", "a">>}

SeqsUpTo(S, n) == UNION {[1..k -> S] : k \in 0..n}

DetCategories ==
    {[name |-> name, rate |-> 5, keywords |-> keywords, active |-> TRUE] :
        name \in DetNames, keywords \in SeqsUpTo(DetKeywords, MaxKeywords)}

InitDet ==
    /\ HandlerIdle
    /\ calc = IdleCalc
    /\ \E description \in DetDescriptions,
          categories \in SeqsUpTo(DetCategories, MaxSeqCats) :
          det = [IdleDet EXCEPT !.description = description,
                                !.categories = categories, !.stage = "input"]

\* detect_category on the drawn description and category list
ApplyDetect ==
    /\ det.stage = "input"
    /\ det' = [det EXCEPT
                 !.stage = "done",
                 !.result = BestMatch(det.description, det.categories),
                 !.scores = [i \in 1..Len(det.categories) |->
                               Score(det.categories[i], Lower(det.description))]]
    /\ UNCHANGED <<store, log, req, faults, detected, storeReads, resp, calc>>

NextDet == ApplyDetect

SpecDet == InitDet /\ [][NextDet]_vars

\* ================================================================== claims

Abs(x) == IF x < 0 THEN -x ELSE x

\* m is w written in any mix of upper and lower case
Spells(m, w) ==
    /\ Len(m) = Len(w)
    /\ \A i \in 1..Len(w) :
          \/ m[i] = w[i]
          \/ m[i] \in DOMAIN LowerTable /\ LowerTable[m[i]] = w[i]

ValidSpelling(m) == Spells(m, exclusive) \/ Spells(m, inclusive)

Answered == req # None /\ resp.status = 200
Body == resp.body[1]
Payload == req[1]

\* the description as the detector sees it
SeenDescription == Lower(OrEmpty(Payload.description))

\* C1: a valid request with a non-null rate succeeds with applied_rate equal
\* to that rate and source "provided", whatever is stored; the store is not
\* read, the detector yields nothing and detected_category is none.
C1_ProvidedRateWins ==
    (req # None /\ Payload.rate # None /\ ValidSpelling(Payload.mode)) =>
        /\ resp.status = 200
        /\ Body.applied_rate = Payload.rate[1]
        /\ Body.source = "provided"
        /\ Body.detected_category = None
        /\ detected = None
        /\ storeReads = 0

C1_Witness ==
    /\ Answered
    /\ Payload.rate # None
    /\ \E i \in 1..Len(store) :
          store[i].active /\ Score(store[i], SeenDescription) > 0

\* C2: without an explicit rate, when the category the detector selected is
\* inactive the result has source "default" and applied_rate 18, also when a
\* lower-scoring active category matches the description.
C2_InactiveNeverApplied ==
    (Answered /\ Payload.rate = None /\ detected # None /\ ~detected[1].active) =>
        /\ Body.source = "default"
        /\ Body.applied_rate = 18

C2_Witness ==
    /\ Answered
    /\ Payload.rate = None
    /\ detected # None
    /\ ~detected[1].active
    /\ \E i \in 1..Len(store) :
          /\ store[i].active
          /\ Score(store[i], SeenDescription) > 0
          /\ Score(store[i], SeenDescription) < Score(detected[1], SeenDescription)

\* C3: a request whose mode is no spelling of "exclusive" or "inclusive" is
\* answered with an error, nothing is computed, the store is not read and the
\* log is left as it was; every upper/lower-case spelling of the two modes is
\* accepted and computed as that mode (exclusive keeps the amount as net,
\* inclusive keeps it as gross).
C3_ModeChecked ==
    /\ [](req # None =>
            IF ValidSpelling(Payload.mode)
            THEN /\ resp.status = 200
                 /\ Spells(Payload.mode, exclusive) =>
                       /\ Body.net_amount = Payload.amount
                       /\ Body.applied_rate > 0 => Body.gross_amount > Payload.amount
                 /\ Spells(Payload.mode, inclusive) =>
                       /\ Body.gross_amount = Payload.amount
                       /\ Body.applied_rate > 0 => Body.net_amount < Payload.amount
            ELSE /\ resp.status = 400
                 /\ resp.body = None
                 /\ detected = None
                 /\ storeReads = 0)
    /\ [][resp'.status = 400 => log' = log]_vars

C3_Witness ==
    /\ req # None
    /\ ~ValidSpelling(Payload.mode)
    /\ resp.status = 400
    /\ log # <<>>
    /\ store # <<>>

\* the responses a request gets from healthy storage holding `categories`
HealthyBodies(payload, categories) ==
    LET d == IF payload.rate # None THEN None
             ELSE BestMatch(OrEmpty(payload.description), categories)
        applied == IF payload.rate # None THEN payload.rate[1]
                   ELSE IF d # None /\ d[1].active THEN d[1].rate ELSE 18
        source == IF payload.rate # None THEN "provided"
                  ELSE IF d # None /\ d[1].active THEN "detected" ELSE "default"
    IN  {[net_amount |-> a.net, gst_amount |-> a.gst, gross_amount |-> a.gross,
          applied_rate |-> applied, detected_category |-> NameOf(d),
          source |-> source] :
            a \in Compute(payload.amount, Lower(payload.mode), applied)}

\* C4: a valid request succeeds whatever storage does: when the audit append
\* fails the response is one healthy storage gives, and when listing the
\* categories fails the response is one an empty collection gives (source
\* "default" and applied_rate 18 if no rate was supplied).
C4_StorageFailuresAbsorbed ==
    (req # None /\ ValidSpelling(Payload.mode)) =>
        /\ resp.status = 200
        /\ Body \in HealthyBodies(Payload, IF faults.list THEN <<>> ELSE store)
        /\ (faults.list /\ Payload.rate = None) =>
              /\ Body.source = "default"
              /\ Body.applied_rate = 18
              /\ Body.detected_category = None

C4_Witness ==
    /\ Answered
    /\ faults.list
    /\ faults.append
    /\ Payload.rate = None
    /\ \E i \in 1..Len(store) :
          store[i].active /\ Score(store[i], SeenDescription) > 0

\* C5: an exclusive calculation on amount A at rate R followed by an
\* inclusive calculation on its gross amount at rate R gives a net amount
\* within 0.01 of A.
C5_RoundTrip ==
    calc.stage = "roundtrip" => Abs(calc.second.net - calc.amount) <= 10

C5_Witness ==
    /\ calc.stage = "roundtrip"
    /\ calc.amount % 10 # 0
    /\ calc.rate > 0
    /\ calc.second.net # calc.amount
    /\ calc.first.gross > calc.amount

Computed == calc.stage \in {"exclusive", "inclusive"}
TwoDecimals(x) == x % 10 = 0

TaxError == Abs(100 * calc.first.gst - calc.first.net * calc.rate)
SumError == Abs(calc.first.gross - (calc.first.net + calc.first.gst))

\* C7 as stated: in both modes gross = net + gst and gst = net * rate / 100,
\* each within 0.01.
C7_BothWithinCent ==
    Computed => SumError <= 10 /\ TaxError <= 1000

\* C7 amended: gross = net + gst within 0.01 in both modes; gst = net *
\* rate / 100 within 0.01 in exclusive mode and, in inclusive mode, for an
\* amount of at most two decimal places; within 0.015 for any other
\* inclusive amount.
C7_WithinRounding ==
    Computed =>
        /\ SumError <= 10
        /\ (calc.stage = "exclusive" \/ TwoDecimals(calc.amount)) => TaxError <= 1000
        /\ TaxError <= 1500

C7_Witness ==
    /\ calc.stage = "inclusive"
    /\ ~TwoDecimals(calc.amount)
    /\ TaxError > 1000
    /\ calc.rate > 0

\* C8 as stated: detected_category carries a name exactly when source is
\* "detected", in the response and in the audit record.
C8_NameOnlyWhenDetected ==
    /\ Answered => (Body.detected_category # None <=> Body.source = "detected")
    /\ \A i \in 1..Len(log) :
          log[i].detected_category # None <=> log[i].source = "detected"

MaxScore == IF det.scores = <<>> THEN 0
            ELSE CHOOSE m \in {det.scores[i] : i \in 1..Len(det.scores)} :
                     \A j \in 1..Len(det.scores) : det.scores[j] <= m

\* C9: the detector returns none exactly when no category scores above 0;
\* otherwise it returns the first category, in input order, among those with
\* the maximum score.
C9_FirstBestOrNone ==
    det.stage = "done" =>
        /\ det.result = None <=> MaxScore = 0
        /\ det.result # None =>
              \E i \in 1..Len(det.categories) :
                  /\ det.result[1] = det.categories[i]
                  /\ det.scores[i] = MaxScore
                  /\ \A j \in 1..(i - 1) : det.scores[j] < MaxScore

C9_Witness ==
    /\ det.stage = "done"
    /\ Len(det.categories) = 2
    /\ det.scores[1] = det.scores[2]
    /\ det.scores[1] > 0
    /\ det.categories[1] # det.categories[2]
    /\ det.result = Some(det.categories[1])

\* the distinct non-empty lowercased keywords and name found in description
DistinctHits(cat, description) ==
    {k \in {Lower(cat.keywords[i]) : i \in 1..Len(cat.keywords)}
              \cup {Lower(cat.name)} :
        k # <<>> /\ IsSubstring(k, Lower(description))}

\* C10 as stated: a category's score is the number of distinct non-empty
\* strings among its lowercased keywords and lowercased name that occur in
\* the lowercased description.
C10_ScoreCountsDistinct ==
    det.stage = "done" =>
        \A i \in 1..Len(det.categories) :
            det.scores[i] =
                Cardinality(DistinctHits(det.categories[i], det.description))

====
